---- MODULE Spec2Model ----
(***************************************************************************)
(* The generate_ollama entry point of the Ollama module, as a state        *)
(* machine.  One behaviour is one invocation: the host puts the input      *)
(* bytes in the module's memory, calls generate_ollama, and answers every  *)
(* capability call (log, issue_request, read_resource, write_resource)     *)
(* with a status.                                                          *)
(*                                                                         *)
(* The repository holds several near-duplicate variants of the entry       *)
(* point.  variant selects the one that runs:                              *)
(*   "main"  src/main.go                    (fixed reply path, then a stub) *)
(*   "sim"   src/unnamed/part_000 1-422     (validateInput, simulated reply)*)
(* Strings are TLA+ strings, JSON documents are their decoded structure.   *)
(***************************************************************************)
EXTENDS Integers, Sequences, FiniteSets, TLC

VARIABLES
    variant,      \* which source file's generate_ollama runs
    mem,          \* the input document at (inputPtr, inputLen) in module memory
    pc,           \* the position inside generate_ollama
    inputBytes,   \* the owned copy of the input buffer
    input,        \* the decoded OllamaInput
    err,          \* the Go error in flight ("" is nil)
    url,          \* the request URL
    requestBody,  \* the marshalled OllamaAPIRequest
    hostReply,    \* the reply the host holds after a successful issue_request
    responseBody, \* what makeHttpRequest returned
    output,       \* the OllamaOutput under construction
    writeErr,     \* whether writeOutputFile returned an error
    calls,        \* the capability calls made so far, in order
    pathIndex,    \* the position of readFloatFileContent in responsePaths
    ret,          \* the status returned to the host (read when pc = "done")
    callArgs      \* the arguments of a call of createErrorOutput on its own

vars == <<variant, mem, pc, inputBytes, input, err, url, requestBody,
          hostReply, responseBody, output, writeErr, calls, pathIndex, ret,
          callArgs>>

----------------------------------------------------------------------------
(* Bounds of the model *)

\* ollama_url inputs end in 0..MaxSlashes '/' characters
MaxSlashes == 2
\* prompt lengths within PromptSlack of the length bound are drawn
PromptSlack == 1
\* a capability returns a status in 0..MaxStatus
MaxStatus == 1

(* Program constants *)

\* validateInput: len(input.Prompt) > 32768
MaxPromptLen == 32768
\* validateInput: len(input.System) > 8192
MaxSystemLen == 8192

----------------------------------------------------------------------------
(* Strings *)

RECURSIVE Repeat(_, _)
\* the string made of n copies of c
Repeat(c, n) ==
    IF n = 0 THEN ""
    ELSE IF n % 2 = 0 THEN LET h == Repeat(c, n \div 2) IN h \o h
    ELSE c \o Repeat(c, n - 1)

CharAt(s, i) == SubSeq(s, i, i)

\* strings.HasPrefix
HasPrefix(s, p) == Len(s) >= Len(p) /\ SubSeq(s, 1, Len(p)) = p

\* strings.Contains
Contains(s, sub) ==
    \E i \in 1..(Len(s) - Len(sub) + 1) : SubSeq(s, i, i + Len(sub) - 1) = sub

RECURSIVE TrimRight(_, _)
\* strings.TrimRight(s, cutset) for a one-character cutset: every trailing
\* occurrence is removed
TrimRight(s, c) ==
    IF Len(s) > 0 /\ CharAt(s, Len(s)) = c
    THEN TrimRight(SubSeq(s, 1, Len(s) - 1), c)
    ELSE s

EndsWith(s, c) == Len(s) > 0 /\ CharAt(s, Len(s)) = c

----------------------------------------------------------------------------
(* Input documents: the bytes the host hands over, by their JSON structure *)

\* "main" is src/main.go; "sim" is the file of part_000 with validateInput
\* (lines 1-422); "def" is the file of part_000 with the default server URL
\* (lines 424-732); "probe" is the file of part_000 that looks for the reply
\* under several paths (lines 734-1170)
Variants == {"main", "sim", "def", "probe"}

\* a JSON member of the input object: absent, null, a string, or a number
\* (a number where the struct wants a string is a type error)
Absent == [t |-> "absent", v |-> ""]
Null == [t |-> "null", v |-> ""]
Number == [t |-> "number", v |-> ""]
Str(s) == [t |-> "string", v |-> s]

\* the stream member: absent, or a JSON boolean
NoBool == [t |-> "absent", v |-> FALSE]
Bool(b) == [t |-> "bool", v |-> b]

ModelMembers == {Absent, Number, Str(""), Str("m1")}

PromptLens ==
    {0, 1} \cup ((MaxPromptLen - PromptSlack)..(MaxPromptLen + PromptSlack))

PromptMembers == {Absent} \cup {Str(Repeat("x", n)) : n \in PromptLens}

UrlStrings ==
    {p \o h \o Repeat("/", n) :
        p \in {"", "http://", "https://", "ftp://"},
        h \in {"", "h"},
        n \in 0..MaxSlashes}

UrlMembers == {Absent, Null} \cup {Str(u) : u \in UrlStrings}

StreamMembers == {NoBool, Bool(TRUE), Bool(FALSE)}

\* an entry of the options object: absent, or a number in tenths (7 is 0.7)
NoOption == [t |-> "absent", v |-> 0]
Tenths(n) == [t |-> "number", v |-> n]

\* the options member: absent, or an object with temperature and top_p
NoOptions == [t |-> "absent", temperature |-> NoOption, top_p |-> NoOption]
Options(temp, topP) == [t |-> "object", temperature |-> temp, top_p |-> topP]

OptionsMembers == {NoOptions}

\* kind: "empty" is a zero-length buffer, "garbage" is not JSON, "null" is
\* the JSON literal null, "array" is JSON of the wrong shape.  The members
\* suffix, template, context, raw, format, keep_alive and images are absent
\* from every document drawn.
NonObject(k) ==
    [kind |-> k, model |-> Absent, prompt |-> Absent, ollama_url |-> Absent,
     stream |-> NoBool, system |-> Absent, options |-> NoOptions]

Docs ==
    {NonObject(k) : k \in {"empty", "garbage", "null", "array"}}
    \cup
    [kind : {"object"}, model : ModelMembers, prompt : PromptMembers,
     ollama_url : UrlMembers, stream : StreamMembers, system : {Absent},
     options : OptionsMembers]

\* the documents that do not decode, and the objects whose prompt and
\* ollama_url are absent or one fixed value: they take every branch of
\* generate_ollama that does not look inside a string
PlainDocs ==
    {d \in Docs :
        \/ d.kind # "object"
        \/ /\ d.prompt \in {Absent, Str("x")}
           /\ d.ollama_url \in {Absent, Str("http://h")}
           /\ d.stream = NoBool}

\* temperature and top_p in tenths, at and one tenth beyond the bounds
\* validateInput checks them against
TemperatureMembers == {NoOption, Tenths(-1), Tenths(0), Tenths(20), Tenths(21)}
TopPMembers == {NoOption, Tenths(-1), Tenths(0), Tenths(10), Tenths(11)}

\* system messages at and one byte beyond the bound validateInput checks
SystemMembers ==
    {Absent, Str(Repeat("s", MaxSystemLen)), Str(Repeat("s", MaxSystemLen + 1))}

\* complete documents with a system message and tuning options
TuningDocs ==
    [kind : {"object"}, model : {Str("m1")}, prompt : {Str("x")},
     ollama_url : {Str("http://h")}, stream : {NoBool},
     system : SystemMembers,
     options : {NoOptions} \cup
               {Options(t, p) : t \in TemperatureMembers, p \in TopPMembers}]

\* model names that hold a double quote or a backslash
QuotingModels == {"a\"b", "a\\\\b", "a\\\"b"}

\* complete documents with such a model name
QuotingDocs ==
    [kind : {"object"}, model : {Str(m) : m \in QuotingModels},
     prompt : {Str("x")}, ollama_url : {Str("http://h")}, stream : {NoBool},
     system : {Absent}, options : {NoOptions}]

\* the inputs an invocation of variant v is given.  The path-probing file
\* has the generate_ollama of src/main.go line for line (part_000 987-1166)
\* and differs in the reading of the reply only; the file with validateInput
\* is the one that looks at system, options and the text of the model name.
InputsOf(v) ==
    IF v = "probe" THEN PlainDocs
    ELSE IF v = "sim" THEN Docs \cup TuningDocs \cup QuotingDocs
    ELSE Docs

----------------------------------------------------------------------------
(* encoding/json on the input *)

StringMembers == {"model", "prompt", "ollama_url", "system"}

\* UnmarshalInputError, were a zero-length buffer decoded like null
UnmarshalInputErrorEmptyOk(doc) ==
    CASE doc.kind = "garbage" ->
            "invalid character 'x' looking for beginning of value"
      [] doc.kind = "array" ->
            "json: cannot unmarshal array into Go value of type main.OllamaInput"
      [] doc.kind \in {"null", "empty"} -> ""
      [] OTHER ->
            IF \E f \in {"model", "prompt", "ollama_url", "system"} :
                    doc[f].t = "number"
            THEN "json: cannot unmarshal number into Go struct field of type string"
            ELSE ""

\* json.Unmarshal(inputBytes, &input): the error, "" for nil
UnmarshalInputError(doc) ==
    CASE doc.kind = "empty" -> "unexpected end of JSON input"
      [] doc.kind = "garbage" ->
            "invalid character 'x' looking for beginning of value"
      [] doc.kind = "array" ->
            "json: cannot unmarshal array into Go value of type main.OllamaInput"
      [] doc.kind = "null" -> ""
      [] OTHER ->
            IF \E f \in StringMembers : doc[f].t = "number"
            THEN "json: cannot unmarshal number into Go struct field of type string"
            ELSE ""

\* a string member decodes to its value; absent and null leave the zero value
StringField(m) == IF m.t = "string" THEN m.v ELSE ""

\* a *bool member: nil unless a boolean is present
NilBool == [nil |-> TRUE, v |-> FALSE]
PtrTo(b) == [nil |-> FALSE, v |-> b]
BoolPtrField(m) == IF m.t = "bool" THEN PtrTo(m.v) ELSE NilBool

\* a map[string]interface{} of options: nil unless the object is present
NilOptions == [nil |-> TRUE, temperature |-> NoOption, top_p |-> NoOption]
OptionsField(m) ==
    IF m.t = "object"
    THEN [nil |-> FALSE, temperature |-> m.temperature, top_p |-> m.top_p]
    ELSE NilOptions

\* the zero OllamaInput
ZeroInput ==
    [Model |-> "", Prompt |-> "", Suffix |-> "", System |-> "",
     Template |-> "", Context |-> <<>>, Stream |-> NilBool, Raw |-> FALSE,
     Format |-> "", KeepAlive |-> "", Images |-> <<>>, Options |-> NilOptions,
     OllamaURL |-> ""]

\* the OllamaInput json.Unmarshal leaves behind when it reports no error
DecodeInput(doc) ==
    IF doc.kind # "object" THEN ZeroInput
    ELSE [ZeroInput EXCEPT
            !.Model = StringField(doc.model),
            !.Prompt = StringField(doc.prompt),
            !.System = StringField(doc.system),
            !.Stream = BoolPtrField(doc.stream),
            !.Options = OptionsField(doc.options),
            !.OllamaURL = StringField(doc.ollama_url)]

\* the default-URL variant declares Stream as a bool: absent and null leave
\* false, and there is no nil
DecodeInputOf(v, doc) ==
    IF v = "def"
    THEN [DecodeInput(doc) EXCEPT
            !.Stream = PtrTo(doc.kind = "object" /\ doc.stream.t = "bool"
                                /\ doc.stream.v)]
    ELSE DecodeInput(doc)

----------------------------------------------------------------------------
(* OllamaOutput and its serialisation *)

\* a nil map[string]interface{}
NilMap == <<>>

\* the zero OllamaOutput
ZeroOutput ==
    [Success |-> FALSE, Response |-> "", Model |-> "", CreatedAt |-> "",
     Done |-> FALSE, Context |-> <<>>, TotalDuration |-> 0, LoadDuration |-> 0,
     PromptEvalCount |-> 0, PromptEvalDuration |-> 0, EvalCount |-> 0,
     EvalDuration |-> 0, Error |-> "", ErrorType |-> "", Metadata |-> NilMap]

\* ErrorOutput, were the ErrorType left out of the literal
ErrorOutputNoType(errorMsg, errorType, metadata) ==
    [ZeroOutput EXCEPT !.Error = errorMsg, !.Metadata = metadata]

\* &OllamaOutput{Success: false, Error: ..., ErrorType: ..., Metadata: ...}
ErrorOutput(errorMsg, errorType, metadata) ==
    [ZeroOutput EXCEPT !.Error = errorMsg, !.ErrorType = errorType,
                       !.Metadata = metadata]

\* createErrorOutput, were processing_complete set only where the caller's
\* map has none
createErrorOutputKeepsCaller(errorMsg, errorType, metadata) ==
    LET md == [k \in DOMAIN metadata \cup {"processing_complete"} |->
                  IF k \in DOMAIN metadata THEN metadata[k] ELSE FALSE]
    IN  [ZeroOutput EXCEPT !.Error = errorMsg, !.ErrorType = errorType,
                           !.Done = TRUE, !.Metadata = md]

\* createErrorOutput of the validateInput variant
createErrorOutput(errorMsg, errorType, metadata) ==
    LET md == [k \in DOMAIN metadata \cup {"processing_complete"} |->
                  IF k = "processing_complete" THEN FALSE ELSE metadata[k]]
    IN  [ZeroOutput EXCEPT !.Error = errorMsg, !.ErrorType = errorType,
                           !.Done = TRUE, !.Metadata = md]

\* the error output of the variant that runs
MakeErrorOutput(v, errorMsg, errorType, metadata) ==
    IF v = "sim" THEN createErrorOutput(errorMsg, errorType, metadata)
    ELSE ErrorOutput(errorMsg, errorType, metadata)

\* the JSON members that carry `omitempty` and are left out when zero
OmittedWhenEmpty(v, out) ==
    {k \in {"context"} : out.Context = <<>>}
    \cup {k \in {"total_duration"} : out.TotalDuration = 0}
    \cup {k \in {"load_duration"} : out.LoadDuration = 0}
    \cup {k \in {"prompt_eval_count"} : out.PromptEvalCount = 0}
    \cup {k \in {"prompt_eval_duration"} : out.PromptEvalDuration = 0}
    \cup {k \in {"eval_count"} : out.EvalCount = 0}
    \cup {k \in {"eval_duration"} : out.EvalDuration = 0}
    \cup {k \in {"error"} : out.Error = ""}
    \cup {k \in {"error_type"} : out.ErrorType = ""}
    \cup {k \in {"response"} : v = "sim" /\ out.Response = ""}
    \cup {k \in {"model"} : v = "sim" /\ out.Model = ""}
    \cup {k \in {"created_at"} : v = "sim" /\ out.CreatedAt = ""}

OutputValue(out, k) ==
    CASE k = "success" -> out.Success
      [] k = "response" -> out.Response
      [] k = "model" -> out.Model
      [] k = "created_at" -> out.CreatedAt
      [] k = "done" -> out.Done
      [] k = "context" -> out.Context
      [] k = "total_duration" -> out.TotalDuration
      [] k = "load_duration" -> out.LoadDuration
      [] k = "prompt_eval_count" -> out.PromptEvalCount
      [] k = "prompt_eval_duration" -> out.PromptEvalDuration
      [] k = "eval_count" -> out.EvalCount
      [] k = "eval_duration" -> out.EvalDuration
      [] k = "error" -> out.Error
      [] k = "error_type" -> out.ErrorType
      [] OTHER -> out.Metadata

OutputMembers ==
    {"success", "response", "model", "created_at", "done", "context",
     "total_duration", "load_duration", "prompt_eval_count",
     "prompt_eval_duration", "eval_count", "eval_duration", "error",
     "error_type", "metadata"}

\* json.MarshalIndent(data, "", "  "): the JSON object written, by member
MarshalOutput(v, out) ==
    [k \in OutputMembers \ OmittedWhenEmpty(v, out) |-> OutputValue(out, k)]

----------------------------------------------------------------------------
(* Validation *)

\* MissingField, were ollama_url checked first
MissingFieldUrlFirst(in) ==
    IF in.OllamaURL = "" THEN "ollama_url"
    ELSE IF in.Model = "" THEN "model"
    ELSE IF in.Prompt = "" THEN "prompt"
    ELSE ""

\* MissingField, were the prompt left unchecked
MissingFieldPromptUnchecked(in) ==
    IF in.Model = "" THEN "model"
    ELSE IF in.OllamaURL = "" THEN "ollama_url"
    ELSE ""

\* src/main.go: the first required field that is empty, "" when none is
MissingField(in) ==
    IF in.Model = "" THEN "model"
    ELSE IF in.Prompt = "" THEN "prompt"
    ELSE IF in.OllamaURL = "" THEN "ollama_url"
    ELSE ""

\* the default-URL variant: only model and prompt are required
MissingFieldDefaulted(in) ==
    IF in.Model = "" THEN "model"
    ELSE IF in.Prompt = "" THEN "prompt"
    ELSE ""

\* the required-field checks of the variant that runs
RequiredField(v, in) ==
    IF v = "def" THEN MissingFieldDefaulted(in) ELSE MissingField(in)

\* the Error text of the three required-field outputs
RequiredMessage(field) ==
    CASE field = "model" -> "Model field is required"
      [] field = "prompt" -> "Prompt field is required"
      [] OTHER -> "ollama_url field is required - please specify the Ollama server URL (e.g., 'http://localhost:11434')"

\* what logToFloat is given before a required-field output
RequiredLog(field) ==
    CASE field = "model" -> "Model is required"
      [] field = "prompt" -> "Prompt is required"
      [] OTHER -> "ERROR: ollama_url is required"

\* PromptTooLong, were the bound checked with >=
PromptTooLongOffByOne(prompt) == Len(prompt) >= MaxPromptLen

\* validateInput: len(input.Prompt) > 32768
PromptTooLong(prompt) == Len(prompt) > MaxPromptLen

\* OutOfRange, were the bounds themselves rejected
OutOfRangeAtBounds(opt, lo, hi) ==
    opt.t = "number" /\ (opt.v <= lo \/ opt.v >= hi)

\* an option that is present as a float64 and lies outside [lo, hi] tenths
OutOfRange(opt, lo, hi) == opt.t = "number" /\ (opt.v < lo \/ opt.v > hi)

\* validateInput: the error text, "" for nil
validateInput(in) ==
    IF in.Model = "" THEN "model field is required"
    ELSE IF in.Prompt = "" THEN "prompt field is required"
    ELSE IF in.OllamaURL = "" THEN "ollama_url field is required"
    ELSE IF ~HasPrefix(in.OllamaURL, "http://") /\ ~HasPrefix(in.OllamaURL, "https://")
        THEN "ollama_url must be a valid HTTP/HTTPS URL"
    ELSE IF PromptTooLong(in.Prompt)
        THEN "prompt exceeds maximum length of 32768 characters"
    ELSE IF in.System # "" /\ Len(in.System) > MaxSystemLen
        THEN "system message exceeds maximum length of 8192 characters"
    ELSE IF ~in.Options.nil /\ OutOfRange(in.Options.temperature, 0, 20)
        THEN "temperature must be between 0 and 2"
    ELSE IF ~in.Options.nil /\ OutOfRange(in.Options.top_p, 0, 10)
        THEN "top_p must be between 0 and 1"
    ELSE ""

\* the metadata of a VALIDATION_ERROR output of the validateInput variant:
\* the field is found by searching the error text
ValidationMetadata(msg) ==
    LET stage == ("error_stage" :> "validation")
    IN  IF Contains(msg, "model") THEN stage @@ ("missing_field" :> "model")
        ELSE IF Contains(msg, "prompt") THEN stage @@ ("missing_field" :> "prompt")
        ELSE IF Contains(msg, "ollama_url")
            THEN stage @@ ("missing_field" :> "ollama_url")
        ELSE stage

----------------------------------------------------------------------------
(* The outbound request *)

\* NormalizeURL, were one trailing '/' removed (strings.TrimSuffix)
NormalizeURLOnce(u) ==
    IF EndsWith(u, "/") THEN SubSeq(u, 1, Len(u) - 1) ELSE u

\* strings.TrimRight(input.OllamaURL, "/")
NormalizeURL(u) == TrimRight(u, "/")

\* the address of the local Ollama server
DefaultOllamaURL == "http://localhost:11434"

\* DefaultURL, were the default left out
DefaultURLMissing(v, u) == u

\* the default-URL variant replaces an empty OllamaURL
DefaultURL(v, u) ==
    IF v = "def" /\ u = "" THEN DefaultOllamaURL ELSE u

\* the validateInput variant sends stream=false when the input has none
DefaultStream(v, in) ==
    IF v = "sim" /\ in.Stream.nil THEN [in EXCEPT !.Stream = PtrTo(FALSE)]
    ELSE in

\* OllamaAPIRequest{...}: the input without its OllamaURL
APIRequest(in) ==
    [Model |-> in.Model, Prompt |-> in.Prompt, Suffix |-> in.Suffix,
     System |-> in.System, Template |-> in.Template, Context |-> in.Context,
     Stream |-> in.Stream, Raw |-> in.Raw, Format |-> in.Format,
     KeepAlive |-> in.KeepAlive, Images |-> in.Images, Options |-> in.Options]

\* json.Marshal(apiRequest): the error, "" for nil.  Every value of the
\* request was decoded from JSON, and such a value always encodes.
MarshalRequestError(req) == ""

RequestOmitted(req) ==
    {k \in {"suffix"} : req.Suffix = ""}
    \cup {k \in {"system"} : req.System = ""}
    \cup {k \in {"template"} : req.Template = ""}
    \cup {k \in {"context"} : req.Context = <<>>}
    \cup {k \in {"stream"} : req.Stream.nil}
    \cup {k \in {"raw"} : ~req.Raw}
    \cup {k \in {"format"} : req.Format = ""}
    \cup {k \in {"keep_alive"} : req.KeepAlive = ""}
    \cup {k \in {"images"} : req.Images = <<>>}
    \cup {k \in {"options"} : req.Options.nil}

RequestValue(req, k) ==
    CASE k = "model" -> req.Model
      [] k = "prompt" -> req.Prompt
      [] k = "suffix" -> req.Suffix
      [] k = "system" -> req.System
      [] k = "template" -> req.Template
      [] k = "context" -> req.Context
      [] k = "stream" -> req.Stream.v
      [] k = "raw" -> req.Raw
      [] k = "format" -> req.Format
      [] k = "keep_alive" -> req.KeepAlive
      [] k = "images" -> req.Images
      [] OTHER -> req.Options

RequestMembers ==
    {"model", "prompt", "suffix", "system", "template", "context", "stream",
     "raw", "format", "keep_alive", "images", "options"}

\* json.Marshal(apiRequest): the JSON object sent as the body, by member
MarshalRequest(req) ==
    [k \in RequestMembers \ RequestOmitted(req) |-> RequestValue(req, k)]

\* RequestURL, were the operation suffix left out
RequestURLNoSuffix(base) == base

\* url := input.OllamaURL + "/api/generate"
RequestURL(base) == base \o "/api/generate"

\* the headers makeHttpRequest sends
JSONHeaders == "Content-Type: application/json\r\n"

----------------------------------------------------------------------------
(* Replies *)

\* a reply document: kind "object" decodes against OllamaAPIResponse,
\* "garbage" is not JSON, "mistyped" is JSON whose members have the wrong
\* types, "none" is the empty string
ReplyDoc(k, model, createdAt, response, done) ==
    [kind |-> k, model |-> model, created_at |-> createdAt,
     response |-> response, done |-> done, context |-> <<>>,
     total_duration |-> 0, load_duration |-> 0, prompt_eval_count |-> 0,
     prompt_eval_duration |-> 0, eval_count |-> 0, eval_duration |-> 0]

NoBody == ReplyDoc("none", "", "", "", FALSE)

\* what the Ollama server may have answered
HostReplies ==
    {ReplyDoc("object", "m1", "2024-01-15T10:30:00Z", "hi", TRUE),
     ReplyDoc("object", "m1", "2024-01-15T10:30:00Z", "", FALSE),
     ReplyDoc("garbage", "", "", "", FALSE),
     ReplyDoc("mistyped", "", "", "", FALSE)}

\* time.Now().Format(time.RFC3339)
Timestamps == {"2024-01-15T10:30:00Z", "2024-01-15T10:30:01Z"}

RECURSIVE ScanModel(_, _, _)
\* The simulated reply splices the model name, unescaped, between two
\* quotes.  The decoder reads m as the inside of a JSON string literal from
\* position i on: a quote ends the literal early and what follows it is not
\* a separator, a backslash escapes the next character.  The model names
\* drawn hold no ',' '}' or white space and no \b \f \n \r \t \u escapes.
ScanModel(m, i, acc) ==
    IF i > Len(m) THEN [ok |-> TRUE, v |-> acc]
    ELSE IF CharAt(m, i) = "\"" THEN [ok |-> FALSE, v |-> ""]
    ELSE IF CharAt(m, i) = "\\"
        THEN IF i < Len(m) /\ CharAt(m, i + 1) \in {"\"", "\\", "/"}
             THEN ScanModel(m, i + 2, acc \o CharAt(m, i + 1))
             ELSE [ok |-> FALSE, v |-> ""]
    ELSE ScanModel(m, i + 1, acc \o CharAt(m, i))

\* extractModelFromRequest(body)
extractModelFromRequest(body) ==
    IF "model" \in DOMAIN body THEN body["model"] ELSE "unknown"

\* simulatedResponse of the validateInput variant, as the decoder sees it
SimulatedResponse(body, now) ==
    LET scan == ScanModel(extractModelFromRequest(body), 1, "")
    IN  IF scan.ok
        THEN [ReplyDoc("object", scan.v, now,
                       "This is a simulated response. In production, this would be the actual Ollama API response.",
                       TRUE)
                EXCEPT !.total_duration = 1000000000,
                       !.load_duration = 100000000,
                       !.prompt_eval_count = 10,
                       !.prompt_eval_duration = 200000000,
                       !.eval_count = 25,
                       !.eval_duration = 700000000]
        ELSE ReplyDoc("garbage", "", "", "", FALSE)

\* json.Unmarshal([]byte(responseBody), &apiResponse): the error, "" for nil
UnmarshalResponseError(doc) ==
    CASE doc.kind = "object" -> ""
      [] doc.kind = "none" -> "unexpected end of JSON input"
      [] doc.kind = "mistyped" ->
            "json: cannot unmarshal number into Go struct field of type string"
      [] OTHER -> "invalid character 'x' looking for beginning of value"

\* the metadata of a success output in src/main.go
SuccessMetadata(in, resp) ==
    [k \in {"input_prompt_length", "response_length", "ollama_url",
            "stream_mode", "has_suffix", "has_system", "has_images",
            "processing_complete"} |->
        CASE k = "input_prompt_length" -> Len(in.Prompt)
          [] k = "response_length" -> Len(resp.response)
          [] k = "ollama_url" -> in.OllamaURL
          [] k = "stream_mode" -> in.Stream
          [] k = "has_suffix" -> in.Suffix # ""
          [] k = "has_system" -> in.System # ""
          [] k = "has_images" -> Len(in.Images) > 0
          [] OTHER -> TRUE]

\* buildMetadata of the validateInput variant
buildMetadata(in, responseLength) ==
    LET keys == {"input_prompt_length", "response_length", "ollama_url",
                 "stream_mode", "processing_complete"}
                \cup {k \in {"has_system_message"} : in.System # ""}
                \cup {k \in {"image_count"} : Len(in.Images) > 0}
                \cup {k \in {"has_context", "context_length"} :
                        Len(in.Context) > 0}
    IN  [k \in keys |->
            CASE k = "input_prompt_length" -> Len(in.Prompt)
              [] k = "response_length" -> responseLength
              [] k = "ollama_url" -> in.OllamaURL
              [] k = "stream_mode" -> (~in.Stream.nil /\ in.Stream.v)
              [] k = "image_count" -> Len(in.Images)
              [] k = "context_length" -> Len(in.Context)
              [] OTHER -> TRUE]

\* the metadata of a success output in the default-URL variant
SuccessMetadataDefault(in, resp) ==
    [k \in {"input_prompt_length", "response_length", "ollama_url",
            "stream_mode", "processing_complete"} |->
        CASE k = "input_prompt_length" -> Len(in.Prompt)
          [] k = "response_length" -> Len(resp.response)
          [] k = "ollama_url" -> in.OllamaURL
          [] k = "stream_mode" -> in.Stream.v
          [] OTHER -> TRUE]

\* the success output: every member of the decoded reply is copied
SuccessOutput(v, in, resp) ==
    [ZeroOutput EXCEPT
        !.Success = TRUE,
        !.Response = resp.response,
        !.Model = resp.model,
        !.CreatedAt = resp.created_at,
        !.Done = resp.done,
        !.Context = resp.context,
        !.TotalDuration = resp.total_duration,
        !.LoadDuration = resp.load_duration,
        !.PromptEvalCount = resp.prompt_eval_count,
        !.PromptEvalDuration = resp.prompt_eval_duration,
        !.EvalCount = resp.eval_count,
        !.EvalDuration = resp.eval_duration,
        !.Metadata = IF v = "sim" THEN buildMetadata(in, Len(resp.response))
                     ELSE IF v = "def" THEN SuccessMetadataDefault(in, resp)
                     ELSE SuccessMetadata(in, resp)]

----------------------------------------------------------------------------
(* The capabilities *)

Statuses == 0..MaxStatus

\* logToFloat: an empty message is not passed to the host
logToFloat(cs, message) ==
    IF Len(message) = 0 THEN cs
    ELSE Append(cs, [cap |-> "log", args |-> <<message>>, status |-> 0])

RECURSIVE LogAll(_, _)
\* logToFloat on each message in turn
LogAll(cs, messages) ==
    IF messages = <<>> THEN cs
    ELSE LogAll(logToFloat(cs, Head(messages)), Tail(messages))

\* floatHttpRequest, were the method passed before the url
floatHttpRequestMethodFirst(u, method, headers, body, s) ==
    [cap |-> "issue_request", args |-> <<method, u, headers, body>>,
     status |-> s]

\* floatHttpRequest(url, method, headers, body) answered with status s
floatHttpRequest(u, method, headers, body, s) ==
    [cap |-> "issue_request", args |-> <<u, method, headers, body>>,
     status |-> s]

\* floatReadFile(path) answered with status s
floatHttpRequestNoHeaders(u, method, body, s) ==
    [cap |-> "issue_request", args |-> <<u, method, body>>, status |-> s]

floatReadFile(path, s) ==
    [cap |-> "read_resource", args |-> <<path>>, status |-> s]

\* floatWriteFile(path, data) answered with status s
floatWriteFile(path, data, s) ==
    [cap |-> "write_resource", args |-> <<path, data>>, status |-> s]

\* the path writeOutputFile writes
OutputPath == "output.json"

\* the path readHttpResponseFromFloat of src/main.go reads
ResponsePath == "/tmp/float_http_response"

\* MarshalOutputError, were an error output to fail to encode
MarshalOutputErrorOnFailure(out) ==
    IF out.Success THEN "" ELSE "json: unsupported value"

\* json.MarshalIndent(data, "", "  "): the error, "" for nil.  An
\* OllamaOutput holds strings, numbers, booleans and maps of them only.
MarshalOutputError(out) == ""

\* readActualOllamaResponse of src/main.go: it returns no content and an
\* error, whatever the host has read
readActualOllamaResponse ==
    [body |-> NoBody,
     err |-> "real Ollama API integration requires Float runtime HTTP response mechanism"]

\* the paths of the path-probing variant: the one readHttpResponseFromFloat
\* reads first, the one it reads next, and the list of readFloatFileContent
PrimaryPath == "http_response.json"
AlternativePath == "/tmp/http_response"
ResponsePaths ==
    <<"http_response.json", "/tmp/http_response", "response.json",
      "/tmp/float_response.json">>

\* readFloatResponseContent(path) returns no body and this error
readFloatResponseContent(path) ==
    [body |-> NoBody,
     err |-> "Float HTTP response mechanism requires host runtime support - HTTP request was sent successfully to Ollama, but response reading needs Float runtime integration"]

\* ReturnStatus, were the error of writeOutputFile dropped
ReturnStatusIgnoringWrite(at, werr) ==
    IF at = "return_error" THEN 1 ELSE 0

\* the status generate_ollama returns after writeOutputFile: an error output
\* returns 1 whatever the write did, a success output returns 1 when the
\* write failed
ReturnStatus(at, werr) ==
    IF at = "return_error" THEN 1
    ELSE IF werr THEN 1
    ELSE 0

----------------------------------------------------------------------------
(* The invocation *)

EmptyBuffer == NonObject("empty")

\* no call of createErrorOutput on its own is under way
NoArguments == [errorMsg |-> "", errorType |-> "", metadata |-> NilMap]

Init ==
    /\ variant \in Variants
    /\ mem \in InputsOf(variant)
    /\ pc = "start"
    /\ inputBytes = EmptyBuffer
    /\ input = ZeroInput
    /\ err = ""
    /\ url = ""
    /\ requestBody = <<>>
    /\ hostReply = NoBody
    /\ responseBody = NoBody
    /\ output = ZeroOutput
    /\ writeErr = FALSE
    /\ calls = <<>>
    /\ pathIndex = 1
    /\ ret = 0
    /\ callArgs = NoArguments

\* logToFloat("Starting ...")
LogStart ==
    /\ pc = "start"
    /\ calls' = logToFloat(calls,
                    IF variant = "sim" THEN "Starting Ollama text generation"
                    ELSE "Starting Ollama generation request")
    /\ pc' = "copy"
    /\ UNCHANGED <<callArgs, pathIndex, variant,
                   mem, inputBytes, input, err, url, requestBody,
                   hostReply, responseBody, output, writeErr, ret>>

\* inputBytes := make([]byte, inputLen); copy(inputBytes, ...)
ReadInput ==
    /\ pc = "copy"
    /\ inputBytes' = mem
    /\ pc' = "parse"
    /\ UNCHANGED <<callArgs, pathIndex, variant,
                   mem, input, err, url, requestBody, hostReply,
                   responseBody, output, writeErr, calls, ret>>

\* json.Unmarshal(inputBytes, &input) and its error branch
ParseInput ==
    /\ pc = "parse"
    /\ LET e == UnmarshalInputError(inputBytes)
       IN  IF e # ""
           THEN /\ calls' = logToFloat(calls, "Failed to parse input: " \o e)
                /\ output' = MakeErrorOutput(variant,
                                "Invalid input JSON: " \o e, "INPUT_PARSE_ERROR",
                                ("error_stage" :> "input_parsing"))
                /\ pc' = "write_error"
                /\ input' = input
           ELSE /\ input' = DecodeInputOf(variant, inputBytes)
                /\ calls' = IF variant = "sim"
                            THEN logToFloat(calls,
                                    "Parsed input for model: "
                                        \o DecodeInput(inputBytes).Model)
                            ELSE calls
                /\ output' = output
                /\ pc' = "validate"
    /\ UNCHANGED <<callArgs, pathIndex, variant,
                   mem, inputBytes, err, url, requestBody,
                   hostReply, responseBody, writeErr, ret>>

\* the Error text of a failed validation, "" when the input passes
ValidationError(v, in) ==
    IF v = "sim" THEN validateInput(in)
    ELSE IF RequiredField(v, in) # ""
         THEN RequiredMessage(RequiredField(v, in))
    ELSE ""

\* the VALIDATION_ERROR output
ValidationOutput(v, in) ==
    IF v = "sim"
    THEN createErrorOutput(validateInput(in), "VALIDATION_ERROR",
                           ValidationMetadata(validateInput(in)))
    ELSE ErrorOutput(RequiredMessage(RequiredField(v, in)),
                     "VALIDATION_ERROR",
                     ("error_stage" :> "validation")
                        @@ ("missing_field" :> RequiredField(v, in)))

\* the required-field checks, or validateInput and its error branch
Validate ==
    /\ pc = "validate"
    /\ IF ValidationError(variant, input) # ""
       THEN /\ calls' = logToFloat(calls,
                            IF variant = "sim"
                            THEN "Input validation failed: "
                                    \o validateInput(input)
                            ELSE RequiredLog(RequiredField(variant, input)))
            /\ output' = ValidationOutput(variant, input)
            /\ pc' = "write_error"
       ELSE /\ calls' = IF variant = "sim"
                        THEN logToFloat(calls, "Input validation passed")
                        ELSE calls
            /\ output' = output
            /\ pc' = "build"
    /\ UNCHANGED <<callArgs, pathIndex, variant,
                   mem, inputBytes, input, err, url, requestBody,
                   hostReply, responseBody, writeErr, ret>>

\* the URL is normalised, the request built and marshalled
BuildRequest ==
    /\ pc = "build"
    /\ LET in1 == DefaultStream(variant,
                    [input EXCEPT !.OllamaURL =
                        NormalizeURL(DefaultURL(variant, @))])
           req == APIRequest(in1)
           e == MarshalRequestError(req)
           before == IF variant = "sim" THEN <<>>
                     ELSE (IF variant = "def" /\ input.OllamaURL = ""
                           THEN <<"Using default Ollama URL">> ELSE <<>>)
                          \o <<"Generating with model: " \o in1.Model,
                               "Prompt length: %d characters">>
       IN  /\ input' = in1
           /\ IF e # ""
              THEN /\ calls' = LogAll(calls,
                            before \o <<"Failed to marshal request: " \o e>>)
                   /\ output' = MakeErrorOutput(variant,
                                    "Failed to prepare request: " \o e,
                                    "REQUEST_MARSHAL_ERROR",
                                    ("error_stage" :> "request_preparation"))
                   /\ pc' = "write_error"
                   /\ UNCHANGED <<requestBody, url>>
              ELSE /\ requestBody' = MarshalRequest(req)
                   /\ url' = RequestURL(in1.OllamaURL)
                   /\ calls' = LogAll(calls, before \o
                        (IF variant = "sim"
                         THEN <<"Prepared request body (%d bytes)",
                                "Making request to Ollama API: "
                                    \o RequestURL(in1.OllamaURL)>>
                         ELSE <<"Making request to: "
                                    \o RequestURL(in1.OllamaURL)>>))
                   /\ output' = output
                   /\ pc' = "request"
    /\ UNCHANGED <<callArgs, pathIndex, variant,
                   mem, inputBytes, err, hostReply, responseBody,
                   writeErr, ret>>

\* the variants whose makeHttpRequest fetches the reply with floatReadFile;
\* the others return a reply written in the source
ReadsReply(v) == v \notin {"sim", "def"}

\* AfterRequest, were the reply read whatever issue_request answered
AfterRequestAlwaysRead(v, s) == IF ReadsReply(v) THEN "read" ELSE "handle"

\* AfterRequest, were a failed request sent again
AfterRequestRetry(v, s) ==
    IF s # 0 THEN "request" ELSE IF ReadsReply(v) THEN "read" ELSE "handle"

\* AfterRequest, were the reply never read
AfterRequestNeverRead(v, s) == "handle"

\* where makeHttpRequest goes once floatHttpRequest has answered s: back to
\* its caller with an error, or on to the reading of the reply
AfterRequest(v, s) ==
    IF s = 0 /\ ReadsReply(v) THEN "read" ELSE "handle"

\* the reply that makeHttpRequest of the default-URL variant returns
FixedResponse ==
    ReplyDoc("object", "llama2", "", "Generated response from Ollama", TRUE)

\* the call of floatHttpRequest with the logs around it: the default-URL
\* variant logs nothing and passes no headers
SendRequest(v, cs, u, body, s) ==
    IF v = "def"
    THEN Append(cs, floatHttpRequestNoHeaders(u, "POST", body, s))
    ELSE Append(
            LogAll(cs,
                <<"Making HTTP POST request to " \o u>> \o
                (IF v = "sim" THEN <<>> ELSE <<"Request body: %s">>)),
            floatHttpRequest(u, "POST", JSONHeaders, body, s))

\* the error makeHttpRequest returns for a nonzero result
RequestFailed(v, s) ==
    (IF v = "def" THEN "HTTP request failed with code: "
     ELSE "HTTP request failed with status code: ") \o ToString(s)

\* makeHttpRequest up to the answer of floatHttpRequest
IssueRequest ==
    /\ pc = "request"
    /\ \E s \in Statuses :
        LET sent == SendRequest(variant, calls, url, requestBody, s)
        IN  /\ pc' = AfterRequest(variant, s)
            /\ IF s # 0
               THEN /\ calls' = IF ReadsReply(variant)
                                THEN logToFloat(sent,
                                       "HTTP request failed with status: "
                                           \o ToString(s))
                                ELSE sent
                    /\ err' = RequestFailed(variant, s)
                    /\ UNCHANGED <<hostReply, responseBody>>
               ELSE IF variant = "sim"
               THEN /\ \E now \in Timestamps :
                           responseBody' = SimulatedResponse(requestBody, now)
                    /\ calls' = logToFloat(sent,
                                   "HTTP request completed successfully")
                    /\ UNCHANGED <<hostReply, err>>
               ELSE IF variant = "def"
               THEN /\ responseBody' = FixedResponse
                    /\ calls' = sent
                    /\ UNCHANGED <<hostReply, err>>
               ELSE /\ \E r \in HostReplies : hostReply' = r
                    /\ calls' = sent
                    /\ UNCHANGED <<responseBody, err>>
    /\ UNCHANGED <<callArgs, pathIndex, variant,
                   mem, inputBytes, input, url, requestBody, output,
                   writeErr, ret>>

\* what makeHttpRequest does with the outcome r of the reading of the
\* reply: the error is wrapped, or the size of the body is logged
ReplyRead(cs, r) ==
    /\ calls' = IF r.err = ""
                THEN logToFloat(cs, "Received response (%d bytes)") ELSE cs
    /\ err' = IF r.err = "" THEN "" ELSE "failed to read response: " \o r.err
    /\ responseBody' = IF r.err = "" THEN r.body ELSE NoBody
    /\ pc' = "handle"

\* the error of a floatReadFile that answered s
ReadFailed(s) ==
    [body |-> NoBody,
     err |-> "failed to read HTTP response file: error code " \o ToString(s)]

\* readHttpResponseFromFloat up to the answer of its first floatReadFile,
\* and in src/main.go the rest of makeHttpRequest
ReadResponse ==
    /\ pc = "read"
    /\ \E s \in Statuses :
        IF variant = "probe"
        THEN LET asked == Append(
                    logToFloat(calls, "Reading HTTP response from Float"),
                    floatReadFile(PrimaryPath, s))
             IN  /\ calls' = IF s # 0 THEN asked
                             ELSE logToFloat(asked,
                                    "Successfully initiated HTTP response read from Float")
                 /\ pc' = IF s # 0 THEN "read_alt" ELSE "probe"
                 /\ UNCHANGED <<err, responseBody>>
        ELSE LET asked == Append(
                    logToFloat(calls,
                        "Reading HTTP response from Float temporary file"),
                    floatReadFile(ResponsePath, s))
             IN  IF s # 0
                 THEN ReplyRead(asked, ReadFailed(s))
                 ELSE ReplyRead(
                        LogAll(asked,
                            <<"Successfully read HTTP response from Float",
                              "Processing real Ollama API response">>),
                        readActualOllamaResponse)
    /\ UNCHANGED <<callArgs, pathIndex, variant,
                   mem, inputBytes, input, url,
                   requestBody, hostReply, output, writeErr, ret>>

\* readHttpResponseFromFloat of the path-probing variant after its first
\* floatReadFile answered nonzero: the alternative path
ReadAlternative ==
    /\ pc = "read_alt"
    /\ \E s \in Statuses :
        LET asked == Append(calls, floatReadFile(AlternativePath, s))
        IN  IF s # 0
            THEN ReplyRead(asked, ReadFailed(s))
            ELSE /\ calls' = logToFloat(asked,
                                "Successfully initiated HTTP response read from Float")
                 /\ pc' = "probe"
                 /\ UNCHANGED <<err, responseBody>>
    /\ UNCHANGED <<callArgs, pathIndex, variant,
                   mem, inputBytes, input, url,
                   requestBody, hostReply, output, writeErr, ret>>

\* NextPath, were the list of paths started again at its end
NextPathAgain(i) == (i % Len(ResponsePaths)) + 1

\* the path readFloatFileContent tries after path i
NextPath(i) == i + 1

\* one turn of the loop of readFloatFileContent, and its return past the
\* last path
ProbePath ==
    /\ pc = "probe"
    /\ \E s \in Statuses :
        LET path == ResponsePaths[pathIndex]
            asked == Append(calls, floatReadFile(path, s))
        IN  IF s = 0
            THEN /\ ReplyRead(
                        LogAll(asked,
                            <<"Successfully read response from: " \o path,
                              "Processing Float response from path: "
                                    \o path>>),
                        readFloatResponseContent(path))
                 /\ pathIndex' = pathIndex
            ELSE IF NextPath(pathIndex) \in DOMAIN ResponsePaths
            THEN /\ calls' = asked
                 /\ pathIndex' = NextPath(pathIndex)
                 /\ UNCHANGED <<pc, err, responseBody>>
            ELSE /\ ReplyRead(asked,
                        [body |-> NoBody,
                         err |-> "could not read HTTP response from any known Float location"])
                 /\ pathIndex' = pathIndex
    /\ UNCHANGED <<callArgs, variant, mem, inputBytes, input, url, requestBody,
                   hostReply, output, writeErr, ret>>

\* HttpErrorMetadata, were the URL left out
HttpErrorMetadataNoUrl(u) == ("error_stage" :> "http_request")

\* the metadata of an HTTP_REQUEST_ERROR output
HttpErrorMetadata(u) ==
    ("error_stage" :> "http_request") @@ ("ollama_url" :> u)

\* the caller of makeHttpRequest: the transport error branch, the decoding
\* of the reply and its error branch, the success output
HandleResponse ==
    /\ pc = "handle"
    /\ IF err # ""
       THEN /\ calls' = logToFloat(calls, "HTTP request failed: " \o err)
            /\ output' = MakeErrorOutput(variant,
                            (IF variant = "sim"
                             THEN "Failed to connect to Ollama server: "
                             ELSE "Failed to connect to Ollama: ") \o err,
                            "HTTP_REQUEST_ERROR",
                            HttpErrorMetadata(url))
            /\ pc' = "write_error"
       ELSE IF UnmarshalResponseError(responseBody) # ""
       THEN /\ calls' = LogAll(calls,
                (IF variant = "sim"
                 THEN <<"HTTP request completed successfully">> ELSE <<>>)
                \o <<"Failed to parse response: "
                        \o UnmarshalResponseError(responseBody)>>)
            /\ output' = MakeErrorOutput(variant,
                            (IF variant = "sim"
                             THEN "Invalid response from Ollama server: "
                             ELSE "Invalid response from Ollama: ")
                                \o UnmarshalResponseError(responseBody),
                            "RESPONSE_PARSE_ERROR",
                            ("error_stage" :> "response_parsing")
                                @@ ("raw_response" :> responseBody))
            /\ pc' = "write_error"
       ELSE /\ calls' = IF variant = "sim"
                        THEN LogAll(calls,
                                <<"HTTP request completed successfully",
                                  "Successfully parsed Ollama response (%d characters)">>)
                        ELSE calls
            /\ output' = SuccessOutput(variant, input, responseBody)
            /\ pc' = "write_ok"
    /\ UNCHANGED <<callArgs, pathIndex, variant,
                   mem, inputBytes, input, err, url, requestBody,
                   hostReply, responseBody, writeErr, ret>>

\* writeOutputFile(output)
WriteOutput ==
    /\ pc \in {"write_error", "write_ok"}
    /\ IF MarshalOutputError(output) # ""
       THEN /\ writeErr' = TRUE
            /\ calls' = calls
       ELSE \E s \in Statuses :
            /\ calls' = Append(calls,
                            floatWriteFile(OutputPath,
                                MarshalOutput(variant, output), s))
            /\ writeErr' = (s # 0)
    /\ pc' = IF pc = "write_error" THEN "return_error" ELSE "return_ok"
    /\ UNCHANGED <<callArgs, pathIndex, variant,
                   mem, inputBytes, input, err, url, requestBody,
                   hostReply, responseBody, output, ret>>

\* the return that follows writeOutputFile
Return ==
    /\ pc \in {"return_error", "return_ok"}
    /\ ret' = ReturnStatus(pc, writeErr)
    /\ calls' = IF pc = "return_error" THEN calls
                ELSE IF writeErr
                THEN logToFloat(calls,
                        "Failed to write output: failed to write output file")
                ELSE LogAll(calls,
                        <<"Ollama generation completed successfully",
                          "Generated response length: %d characters">>)
    /\ pc' = "done"
    /\ UNCHANGED <<callArgs, pathIndex, variant,
                   mem, inputBytes, input, err, url, requestBody,
                   hostReply, responseBody, output, writeErr>>

Next ==
    \/ LogStart
    \/ ReadInput
    \/ ParseInput
    \/ Validate
    \/ BuildRequest
    \/ IssueRequest
    \/ ReadResponse
    \/ ReadAlternative
    \/ ProbePath
    \/ HandleResponse
    \/ WriteOutput
    \/ Return

Spec == Init /\ [][Next]_vars

\* the invocations of the two files that fetch the reply with floatReadFile,
\* on the plain documents
InitReading == Init /\ ReadsReply(variant) /\ mem \in PlainDocs

\* generate_ollama runs on the module's single thread and every capability
\* call returns: a step that can be taken is taken
FairSpec == InitReading /\ [][Next]_vars /\ WF_vars(Next)

----------------------------------------------------------------------------
(* createErrorOutput on its own *)

\* the error types of the file
ErrorTypes ==
    {"INPUT_PARSE_ERROR", "VALIDATION_ERROR", "REQUEST_MARSHAL_ERROR",
     "HTTP_REQUEST_ERROR", "RESPONSE_PARSE_ERROR"}

ErrorMessages == {"model field is required", "Invalid input JSON: EOF"}

ErrorStages == {"input_parsing", "validation"}

\* the maps a caller may pass: nil, the maps of the call sites, and maps
\* that already hold a processing_complete entry
CallerMetadata ==
    {NilMap}
    \cup {[error_stage |-> st] : st \in ErrorStages}
    \cup {[processing_complete |-> b] : b \in BOOLEAN}
    \cup {[error_stage |-> st, processing_complete |-> b] :
            st \in ErrorStages, b \in BOOLEAN}
    \cup {[error_stage |-> "http_request",
           ollama_url |-> "http://h/api/generate"]}

\* a caller is about to call createErrorOutput(errorMsg, errorType, metadata)
InitErrorOutput ==
    /\ variant = "sim"
    /\ mem = EmptyBuffer
    /\ pc = "createErrorOutput"
    /\ callArgs \in [errorMsg : ErrorMessages, errorType : ErrorTypes,
                      metadata : CallerMetadata]
    /\ inputBytes = EmptyBuffer
    /\ input = ZeroInput
    /\ err = ""
    /\ url = ""
    /\ requestBody = <<>>
    /\ hostReply = NoBody
    /\ responseBody = NoBody
    /\ output = ZeroOutput
    /\ writeErr = FALSE
    /\ calls = <<>>
    /\ pathIndex = 1
    /\ ret = 0

\* output := createErrorOutput(errorMsg, errorType, metadata)
CallCreateErrorOutput ==
    /\ pc = "createErrorOutput"
    /\ output' = createErrorOutput(callArgs.errorMsg, callArgs.errorType,
                                   callArgs.metadata)
    /\ pc' = "returned"
    /\ UNCHANGED <<callArgs, variant, mem, inputBytes, input, err, url,
                   requestBody, hostReply, responseBody, writeErr, calls,
                   pathIndex, ret>>

NextErrorOutput == CallCreateErrorOutput

ErrorOutputSpec == InitErrorOutput /\ [][NextErrorOutput]_vars

----------------------------------------------------------------------------
(* What the host has seen *)

\* the calls of one capability, in order
CallsOf(cap) == SelectSeq(calls, LAMBDA c : c.cap = cap)

Writes == CallsOf("write_resource")
Issued == CallsOf("issue_request")
Reads == CallsOf("read_resource")

\* a member of a written JSON object, or the given default when left out
Member(d, k, default) == IF k \in DOMAIN d THEN d[k] ELSE default

\* the output handed to write_resource (read when Len(Writes) = 1)
Written == Writes[1].args[2]

\* the metadata entry of a written output, or the default when it has none
Meta(d, k, default) == Member(d["metadata"], k, default)

\* the input document decodes
Parses(doc) == UnmarshalInputError(doc) = ""

\* a required member that is absent, null or the empty string
EmptyMember(m) == m.t # "string" \/ m.v = ""

\* the input document decodes and has its three required members
Complete(doc) ==
    /\ Parses(doc)
    /\ ~EmptyMember(doc.model)
    /\ ~EmptyMember(doc.prompt)
    /\ ~EmptyMember(doc.ollama_url)

----------------------------------------------------------------------------
(* Claims *)

\* C1: in src/main.go write_resource is called at most once, always on
\* "output.json", never before the output is built, and exactly once by the
\* time generate_ollama has returned.
C1_WriteExactlyOnce ==
    variant = "main" =>
        /\ Len(Writes) <= 1
        /\ \A i \in 1..Len(Writes) : Writes[i].args[1] = "output.json"
        /\ pc \in {"return_error", "return_ok", "done"} <=> Len(Writes) = 1

\* C1 witness: a run of src/main.go that sent its request has returned with
\* one write on record
C1_Witness ==
    /\ variant = "main"
    /\ pc = "done"
    /\ Len(Issued) = 1
    /\ Len(Writes) = 1

C3_ScenarioA ==
    ( /\ variant = "main"
      /\ pc = "done"
      /\ Complete(mem)
      /\ Len(Issued) = 1 /\ Issued[1].status = 0
      /\ Len(Reads) = 1 /\ Reads[1].status = 0
      /\ hostReply.kind = "object" )
    => /\ Len(Writes) = 1
       /\ Written["success"]
       /\ Written["response"] = hostReply.response
       /\ Written["model"] = hostReply.model
       /\ Written["done"] = hostReply.done
       /\ ret = 0

\* C4: in src/main.go an input that decodes and lacks model, prompt or
\* ollama_url yields VALIDATION_ERROR tagged with the first of them that is
\* missing, and a nonzero status.
C4_FirstMissingField ==
    ( /\ variant = "main"
      /\ pc = "done"
      /\ Parses(mem)
      /\ ~Complete(mem) )
    => /\ Len(Writes) = 1
       /\ ~Written["success"]
       /\ Member(Written, "error_type", "") = "VALIDATION_ERROR"
       /\ Meta(Written, "missing_field", "") =
            (IF EmptyMember(mem.model) THEN "model"
             ELSE IF EmptyMember(mem.prompt) THEN "prompt"
             ELSE "ollama_url")
       /\ ret # 0

\* C4 witness: model given, prompt and ollama_url both missing, reported
\* against prompt
C4_Witness ==
    /\ variant = "main"
    /\ pc = "done"
    /\ Parses(mem)
    /\ ~EmptyMember(mem.model)
    /\ EmptyMember(mem.prompt)
    /\ EmptyMember(mem.ollama_url)
    /\ Meta(Written, "missing_field", "") = "prompt"

\* C5: in src/main.go a nonzero issue_request, or a nonzero read_resource
\* after it, yields HTTP_REQUEST_ERROR tagged with the URL that was passed
\* to issue_request, and a nonzero status.
C5_TransportError ==
    ( /\ variant = "main"
      /\ pc = "done"
      /\ Len(Issued) = 1
      /\ \/ Issued[1].status # 0
         \/ Issued[1].status = 0 /\ Len(Reads) = 1 /\ Reads[1].status # 0 )
    => /\ Len(Writes) = 1
       /\ ~Written["success"]
       /\ Member(Written, "error_type", "") = "HTTP_REQUEST_ERROR"
       /\ "ollama_url" \in DOMAIN Written["metadata"]
       /\ Written["metadata"]["ollama_url"] = Issued[1].args[1]
       /\ ret # 0

\* C5 witness: the request went out, the read of the reply failed
C5_Witness ==
    /\ variant = "main"
    /\ pc = "done"
    /\ Len(Issued) = 1 /\ Issued[1].status = 0
    /\ Len(Reads) = 1 /\ Reads[1].status # 0
    /\ Member(Written, "error_type", "") = "HTTP_REQUEST_ERROR"

\* C6: Scenario D in src/main.go: issue_request and read_resource both
\* answer 0 and the reply does not decode; then the output is
\* RESPONSE_PARSE_ERROR carrying the reply as raw_response, and the status
\* is nonzero.
C6_ScenarioD ==
    ( /\ variant = "main"
      /\ pc = "done"
      /\ Len(Issued) = 1 /\ Issued[1].status = 0
      /\ Len(Reads) = 1 /\ Reads[1].status = 0
      /\ hostReply.kind \in {"garbage", "mistyped"} )
    => /\ Len(Writes) = 1
       /\ ~Written["success"]
       /\ Member(Written, "error_type", "") = "RESPONSE_PARSE_ERROR"
       /\ "raw_response" \in DOMAIN Written["metadata"]
       /\ Written["metadata"]["raw_response"] = hostReply
       /\ ret # 0

\* the ollama_url without its trailing '/' characters: the prefix that does
\* not end in '/' and is followed by '/' only
IsEndpointOf(e, u) ==
    /\ HasPrefix(u, e)
    /\ ~EndsWith(e, "/")
    /\ \A i \in (Len(e) + 1)..Len(u) : CharAt(u, i) = "/"

\* C7: in src/main.go the request built from an input that passed
\* validation carries the input's model and prompt, has no ollama_url
\* member, and goes to the ollama_url without its trailing '/' characters
\* followed by "/api/generate".
C7_RequestBuilt ==
    ( /\ variant = "main"
      /\ pc \in {"request", "read", "handle"} \/ Len(Issued) > 0 )
    => /\ requestBody["model"] = mem.model.v
       /\ requestBody["prompt"] = mem.prompt.v
       /\ "ollama_url" \notin DOMAIN requestBody
       /\ \E n \in 0..Len(mem.ollama_url.v) :
            LET e == SubSeq(mem.ollama_url.v, 1, n)
            IN  /\ IsEndpointOf(e, mem.ollama_url.v)
                /\ url = e \o "/api/generate"
       /\ \A i \in 1..Len(Issued) :
            /\ Issued[i].args[1] = url
            /\ Issued[i].args[4] = requestBody

\* C7 witness: a request went out for an ollama_url that ends in two '/'
C7_Witness ==
    /\ variant = "main"
    /\ Len(Issued) = 1
    /\ Len(mem.ollama_url.v) > 2
    /\ EndsWith(mem.ollama_url.v, "/")
    /\ EndsWith(SubSeq(mem.ollama_url.v, 1, Len(mem.ollama_url.v) - 1), "/")
    /\ ~EndsWith(SubSeq(mem.ollama_url.v, 1, Len(mem.ollama_url.v) - 2), "/")

\* the input document passes every check that validateInput makes before
\* the prompt length
ReachesLengthCheck(doc) ==
    /\ Complete(doc)
    /\ \/ HasPrefix(doc.ollama_url.v, "http://")
       \/ HasPrefix(doc.ollama_url.v, "https://")

\* C8: in the validateInput variant a prompt of 32768 bytes passes the
\* length check (the request is sent) and a prompt of 32769 bytes yields
\* VALIDATION_ERROR tagged with prompt, and a nonzero status.
C8_PromptBound ==
    ( /\ variant = "sim"
      /\ pc = "done"
      /\ ReachesLengthCheck(mem) )
    => /\ Len(mem.prompt.v) = 32768 =>
            /\ Len(Issued) = 1
            /\ Member(Written, "error_type", "") # "VALIDATION_ERROR"
       /\ Len(mem.prompt.v) = 32769 =>
            /\ Len(Issued) = 0
            /\ ~Written["success"]
            /\ Member(Written, "error_type", "") = "VALIDATION_ERROR"
            /\ Meta(Written, "missing_field", "") = "prompt"
            /\ ret # 0

\* C8 witness: a prompt of 32769 bytes was rejected
C8_Witness ==
    /\ variant = "sim"
    /\ pc = "done"
    /\ ReachesLengthCheck(mem)
    /\ Len(mem.prompt.v) = 32769
    /\ Member(Written, "error_type", "") = "VALIDATION_ERROR"

\* C9: every output src/main.go writes has a processing_complete entry in
\* its metadata, true exactly when success is true.
C9_ProcessingComplete ==
    variant = "main" =>
        \A i \in 1..Len(Writes) :
            LET d == Writes[i].args[2]
            IN  /\ "processing_complete" \in DOMAIN d["metadata"]
                /\ d["metadata"]["processing_complete"] = d["success"]

\* C10: in every output written, success=false holds exactly when
\* error_type is one of the five error types and error is non-empty; a
\* success output has neither; no other error_type is written.  Stated for
\* every variant.
C10_ErrorTaxonomy ==
    \A i \in 1..Len(Writes) :
        LET d == Writes[i].args[2]
            type == Member(d, "error_type", "")
            text == Member(d, "error", "")
        IN  /\ ~d["success"] <=> (type \in ErrorTypes /\ text # "")
            /\ d["success"] => (type = "" /\ text = "")
            /\ type \in ErrorTypes \cup {""}

\* C10 witness: src/main.go wrote an HTTP_REQUEST_ERROR output
C10_Witness ==
    /\ variant = "main"
    /\ Len(Writes) = 1
    /\ ~Written["success"]
    /\ Member(Written, "error_type", "") = "HTTP_REQUEST_ERROR"
    /\ Member(Written, "error", "") # ""

\* C12: a zero-length input buffer is rejected: the output written has
\* success=false and error_type INPUT_PARSE_ERROR, the status returned is
\* nonzero, and issue_request is never called.  Stated for every variant:
\* the copy and the decoding of the input are the same text in each.
C12_EmptyInputRejected ==
    (mem.kind = "empty" /\ pc \notin {"start", "copy", "parse"})
    => /\ Len(Issued) = 0
       /\ output.Success = FALSE
       /\ output.ErrorType = "INPUT_PARSE_ERROR"
       /\ pc = "done" =>
            /\ Len(Writes) = 1
            /\ ~Written["success"]
            /\ Member(Written, "error_type", "") = "INPUT_PARSE_ERROR"
            /\ ret # 0

\* C12 witness: src/main.go has returned from an invocation on a
\* zero-length buffer
C12_Witness ==
    /\ variant = "main"
    /\ mem.kind = "empty"
    /\ inputBytes.kind = "empty"
    /\ pc = "done"
    /\ Member(Written, "error_type", "") = "INPUT_PARSE_ERROR"

\* the capability calls on record are log calls and at most one
\* write_resource
OnlyLogAndOneWrite ==
    /\ \A i \in 1..Len(calls) : calls[i].cap \in {"log", "write_resource"}
    /\ Len(Writes) <= 1

\* C17: in src/main.go, when parsing, validation or the marshalling of the
\* request fails, issue_request and read_resource are never called: the
\* calls are log calls and the single write_resource.
C17_FailureBeforeRequest ==
    ( /\ variant = "main"
      /\ \/ ~Complete(mem)
         \/ output.ErrorType = "REQUEST_MARSHAL_ERROR" )
    => /\ Len(Issued) = 0
       /\ Len(Reads) = 0
       /\ OnlyLogAndOneWrite
       /\ pc = "done" => Len(Writes) = 1

\* C17 witness: src/main.go has returned from an input that decodes and
\* has no prompt
C17_Witness ==
    /\ variant = "main"
    /\ pc = "done"
    /\ Parses(mem)
    /\ ~EmptyMember(mem.model)
    /\ EmptyMember(mem.prompt)
    /\ ~EmptyMember(mem.ollama_url)
    /\ Len(Writes) = 1
    /\ Len(Issued) = 0

\* C18: in src/main.go issue_request is called at most once, and once it
\* has answered a nonzero status no issue_request and no read_resource
\* follows.
C18_NoRetry ==
    variant = "main" =>
        /\ Len(Issued) <= 1
        /\ \A i \in 1..Len(calls) :
            (calls[i].cap = "issue_request" /\ calls[i].status # 0)
            => \A j \in (i + 1)..Len(calls) :
                    calls[j].cap \notin {"issue_request", "read_resource"}

\* C18 witness: src/main.go has returned after an issue_request that
\* answered a nonzero status, with calls made after it
C18_Witness ==
    /\ variant = "main"
    /\ pc = "done"
    /\ Len(Issued) = 1
    /\ Issued[1].status # 0
    /\ calls[Len(calls)].cap = "write_resource"

\* C19: in src/main.go read_resource is called at most once, only on
\* "/tmp/float_http_response" and only after an issue_request that answered
\* 0; by the return it has been called exactly once when issue_request
\* answered 0, and not at all otherwise.
C19_ReadOnceAfterRequest ==
    variant = "main" =>
        /\ Len(Reads) <= 1
        /\ \A j \in 1..Len(calls) :
            calls[j].cap = "read_resource"
            => /\ calls[j].args[1] = "/tmp/float_http_response"
               /\ \E i \in 1..(j - 1) :
                    /\ calls[i].cap = "issue_request"
                    /\ calls[i].status = 0
        /\ pc = "done" =>
            (Len(Reads) = 1 <=> \E i \in 1..Len(Issued) : Issued[i].status = 0)

\* C19 witness: src/main.go has returned after an issue_request that
\* answered 0 and one read_resource
C19_Witness ==
    /\ variant = "main"
    /\ pc = "done"
    /\ Len(Issued) = 1
    /\ Issued[1].status = 0
    /\ Len(Reads) = 1
    /\ Reads[1].args[1] = "/tmp/float_http_response"

\* C14: in src/main.go, when the input has no stream member, the body
\* handed to issue_request has a stream member and it is false.
C14_StreamDefaultsFalse ==
    ( /\ variant = "main"
      /\ mem.kind = "object"
      /\ mem.stream.t = "absent" )
    => \A i \in 1..Len(Issued) :
            /\ "stream" \in DOMAIN Issued[i].args[4]
            /\ Issued[i].args[4]["stream"] = FALSE

\* the stages of generate_ollama that come before makeHttpRequest
BeforeInvoke == {"start", "copy", "parse", "validate", "build", "request"}

\* C16: in every run, as long as the output has not been handed to
\* write_resource, no issue_request has been made: nothing outside the
\* module has been changed before the final transition.
C16_NoEffectBeforeEmit ==
    Len(Writes) = 0 => Len(Issued) = 0

\* C16 as amended: in every run the calls made before the output is written
\* are log calls, read_resource calls and at most one issue_request, which
\* is made only once the request is built; an output of a failure before
\* that (parsing, validation, marshalling) is written with no issue_request
\* on record; and after write_resource only log is called.
C16_EffectsBeforeEmit ==
    /\ Len(Issued) <= 1
    /\ Len(Writes) <= 1
    /\ pc \in BeforeInvoke => \A i \in 1..Len(calls) : calls[i].cap = "log"
    /\ \A i \in 1..Len(Issued) :
            /\ Issued[i].args[1] = url
            /\ Issued[i].args[Len(Issued[i].args)] = requestBody
    /\ output.ErrorType \in {"INPUT_PARSE_ERROR", "VALIDATION_ERROR",
                              "REQUEST_MARSHAL_ERROR"}
        => Len(Issued) = 0
    /\ \A i \in 1..Len(calls) :
            calls[i].cap = "write_resource"
            => \A j \in (i + 1)..Len(calls) : calls[j].cap = "log"

\* C16 witness: src/main.go has sent its request and has not written its
\* output yet
C16_Witness ==
    /\ variant = "main"
    /\ Len(Issued) = 1
    /\ Len(Writes) = 0
    /\ pc = "write_error"
    /\ output.ErrorType = "HTTP_REQUEST_ERROR"

\* C15: in the default-URL variant an input whose ollama_url is absent,
\* null or empty is never answered with a VALIDATION_ERROR for ollama_url,
\* and once model and prompt are given the request goes to
\* "http://localhost:11434/api/generate".
C15_DefaultURL ==
    ( /\ variant = "def"
      /\ pc = "done"
      /\ Parses(mem)
      /\ EmptyMember(mem.ollama_url) )
    => /\ Len(Writes) = 1
       /\ Meta(Written, "missing_field", "") # "ollama_url"
       /\ (~EmptyMember(mem.model) /\ ~EmptyMember(mem.prompt))
            => /\ Member(Written, "error_type", "") # "VALIDATION_ERROR"
               /\ Len(Issued) = 1
               /\ Issued[1].args[1] = "http://localhost:11434/api/generate"

\* C15 witness: the default-URL variant has returned from an input with
\* model and prompt and no ollama_url, its request sent
C15_Witness ==
    /\ variant = "def"
    /\ pc = "done"
    /\ mem.kind = "object"
    /\ mem.ollama_url.t = "absent"
    /\ Len(Issued) = 1
    /\ Issued[1].args[1] = "http://localhost:11434/api/generate"
    /\ ret = 0

\* C20: in the path-probing variant, once a read_resource has answered a
\* nonzero status no read_resource on a different path follows.
C20_ReadFailureTerminal ==
    variant = "probe" =>
        \A i \in 1..Len(calls) :
            (calls[i].cap = "read_resource" /\ calls[i].status # 0)
            => \A j \in (i + 1)..Len(calls) :
                    calls[j].cap = "read_resource"
                    => calls[j].args[1] = calls[i].args[1]

\* an upper bound on the steps generate_ollama has left
StepsLeft ==
    CASE pc = "start" -> 16
      [] pc = "copy" -> 15
      [] pc = "parse" -> 14
      [] pc = "validate" -> 13
      [] pc = "build" -> 12
      [] pc = "request" -> 11
      [] pc = "read" -> 10
      [] pc = "read_alt" -> 9
      [] pc = "probe" -> 9 - pathIndex
      [] pc = "handle" -> 3
      [] pc \in {"write_error", "write_ok"} -> 2
      [] pc \in {"return_error", "return_ok"} -> 1
      [] OTHER -> 0

\* C13: every invocation, of src/main.go and of the path-probing variant
\* alike, eventually returns a status to the host; each step leaves fewer
\* steps to take, at most 16 from the start.
C13_EventuallyReturns ==
    /\ <>(pc = "done")
    /\ [][StepsLeft' < StepsLeft]_vars

\* C13 witness: the path-probing variant has returned after every one of
\* its reads of the reply answered a nonzero status but the second
C13_Witness ==
    /\ variant = "probe"
    /\ pc = "done"
    /\ Len(Reads) = 6
    /\ \A i \in {1, 3, 4, 5, 6} : Reads[i].status # 0
    /\ Reads[2].status = 0
    /\ ret # 0

\* C25: every issue_request of src/main.go has the four arguments url,
\* method, headers, body in this order, the method "POST" and the headers
\* the one JSON content-type line, whatever the input.
C25_RequestArguments ==
    variant = "main" =>
        \A i \in 1..Len(Issued) :
            /\ Len(Issued[i].args) = 4
            /\ Issued[i].args[1] = url
            /\ Issued[i].args[2] = "POST"
            /\ Issued[i].args[3] = "Content-Type: application/json\r\n"
            /\ Issued[i].args[4] = requestBody

\* C25 witness: src/main.go has sent a request for an input that asks for
\* a streamed reply
C25_Witness ==
    /\ variant = "main"
    /\ Len(Issued) = 1
    /\ mem.stream = Bool(TRUE)
    /\ Issued[1].args[2] = "POST"

\* C27: in src/main.go, for every input that passes validation, the URL
\* handed to issue_request is more than the suffix "/api/generate": the
\* endpoint left after the trailing '/' are stripped is not empty.
C27_EndpointNotEmpty ==
    variant = "main" =>
        \A i \in 1..Len(Issued) : Issued[i].args[1] # "/api/generate"

\* C28: in src/main.go every buffer handed to issue_request, read_resource
\* or write_resource has at least one byte (url, method, headers and path
\* are non-empty strings, body and data are encoded JSON objects), and no
\* log call carries an empty message.
C28_NoEmptyBuffer ==
    variant = "main" =>
        \A i \in 1..Len(calls) :
            LET c == calls[i]
            IN  CASE c.cap = "log" -> Len(c.args[1]) >= 1
                  [] c.cap = "issue_request" ->
                        /\ Len(c.args[1]) >= 1
                        /\ Len(c.args[2]) >= 1
                        /\ Len(c.args[3]) >= 1
                        /\ "model" \in DOMAIN c.args[4]
                  [] c.cap = "read_resource" -> Len(c.args[1]) >= 1
                  [] OTHER ->
                        /\ Len(c.args[1]) >= 1
                        /\ "success" \in DOMAIN c.args[2]

\* C28 witness: src/main.go has returned after an issue_request, a
\* read_resource and a write_resource, for an ollama_url made of '/' only
C28_Witness ==
    /\ variant = "main"
    /\ pc = "done"
    /\ mem.kind = "object"
    /\ mem.ollama_url = Str("/")
    /\ Len(Issued) = 1
    /\ Len(Reads) = 1
    /\ Len(Writes) = 1

\* C21: in src/main.go no capability call has been made when the input
\* buffer is copied: the copy comes before the first call, log included.
C21_CopyBeforeAnyCall ==
    (variant = "main" /\ pc = "copy") => calls = <<>>

\* the input document decodes and validateInput accepts it
PassesValidation(doc) == Parses(doc) /\ validateInput(DecodeInput(doc)) = ""

\* the prompt of the decoded input is missing or beyond the length bound
PromptViolation(in) == in.Prompt = "" \/ Len(in.Prompt) > 32768

\* the ollama_url of the decoded input is missing or has no HTTP scheme
UrlViolation(in) ==
    \/ in.OllamaURL = ""
    \/ ~HasPrefix(in.OllamaURL, "http://") /\ ~HasPrefix(in.OllamaURL, "https://")

\* C22: in the validateInput variant an input that breaks several rules is
\* reported against the earliest field in the order model, prompt (missing
\* or too long), ollama_url: a prompt beyond the length bound with an empty
\* ollama_url is reported against prompt.
C22_FirstViolationOrder ==
    ( /\ variant = "sim"
      /\ pc = "done"
      /\ Parses(mem)
      /\ ~PassesValidation(mem) )
    => LET in == DecodeInput(mem)
           field == Meta(Written, "missing_field", "")
       IN  /\ Member(Written, "error_type", "") = "VALIDATION_ERROR"
           /\ in.Model = "" => field = "model"
           /\ (in.Model # "" /\ PromptViolation(in)) => field = "prompt"
           /\ (in.Model # "" /\ ~PromptViolation(in) /\ UrlViolation(in))
                => field = "ollama_url"

\* C23: in the validateInput variant every VALIDATION_ERROR output names
\* the offending field in its metadata, whichever rule of validateInput
\* failed.
C23_ValidationErrorTagged ==
    variant = "sim" =>
        \A i \in 1..Len(Writes) :
            LET d == Writes[i].args[2]
            IN  Member(d, "error_type", "") = "VALIDATION_ERROR"
                => DOMAIN d["metadata"]
                        \ {"error_stage", "processing_complete"} # {}

\* a number outside lo..hi (in tenths)
Outside(m, lo, hi) == m.t = "number" /\ (m.v < lo \/ m.v > hi)

\* C24: in the validateInput variant an input that decodes and whose
\* options.temperature is a number outside [0,2], or whose options.top_p is
\* a number outside [0,1], is answered with VALIDATION_ERROR and a nonzero
\* status and no issue_request; with the values at the bounds or absent,
\* and nothing else wrong, the request is sent.
C24_TuningRanges ==
    ( /\ variant = "sim"
      /\ pc = "done"
      /\ Parses(mem)
      /\ mem.options.t = "object" )
    => IF \/ Outside(mem.options.temperature, 0, 20)
          \/ Outside(mem.options.top_p, 0, 10)
       THEN /\ Len(Writes) = 1
            /\ ~Written["success"]
            /\ Member(Written, "error_type", "") = "VALIDATION_ERROR"
            /\ ret # 0
            /\ Len(Issued) = 0
       ELSE PassesValidation([mem EXCEPT !.options = NoOptions])
            => /\ Len(Issued) = 1
               /\ Member(Written, "error_type", "") # "VALIDATION_ERROR"

\* C24 witness: temperature 2 and top_p 1 were accepted and the run ended
\* in a success output
C24_Witness ==
    /\ variant = "sim"
    /\ pc = "done"
    /\ mem.options = Options(Tenths(20), Tenths(10))
    /\ Len(Issued) = 1
    /\ Written["success"]

\* C29: in the validateInput variant, whenever the input passes validateInput
\* and issue_request returns 0, the simulated reply decodes and the run ends
\* in a success output whose model is the model of the input, whatever
\* characters the model name holds.
C29_SimulatedReplyDecodes ==
    ( /\ variant = "sim"
      /\ pc = "done"
      /\ PassesValidation(mem)
      /\ Len(Issued) = 1
      /\ Issued[1].status = 0
      /\ Len(Writes) = 1 )
    => /\ Written["success"]
       /\ Member(Written, "error_type", "") # "RESPONSE_PARSE_ERROR"
       /\ Member(Written, "model", "") = mem.model.v

\* C26: whatever error text, error type and metadata map the caller passes,
\* the output createErrorOutput returns has success false and done true, and
\* its metadata is a map in which processing_complete is false (a nil map
\* replaced, a caller's processing_complete overwritten) and every other
\* entry is the caller's.
C26_ErrorOutputShape ==
    pc = "returned"
    => /\ output.Success = FALSE
       /\ output.Done = TRUE
       /\ output.Error = callArgs.errorMsg
       /\ output.ErrorType = callArgs.errorType
       /\ DOMAIN output.Metadata =
             DOMAIN callArgs.metadata \cup {"processing_complete"}
       /\ output.Metadata["processing_complete"] = FALSE
       /\ \A k \in DOMAIN callArgs.metadata \ {"processing_complete"} :
             output.Metadata[k] = callArgs.metadata[k]

\* C26 witness: the caller's map said processing_complete is true and held
\* an error_stage; the call returned
C26_Witness ==
    /\ pc = "returned"
    /\ "processing_complete" \in DOMAIN callArgs.metadata
    /\ callArgs.metadata["processing_complete"] = TRUE
    /\ "error_stage" \in DOMAIN callArgs.metadata
    /\ output.Metadata["error_stage"] = "validation"

====
